---- MODULE Spec2Model ----
(***************************************************************************)
(* The intent orchestration engine of the assistant backend                *)
(* (backend/app/services/orchestrator.py and its collaborators): per-user  *)
(* session state, intent classification with confidence fallback, routing  *)
(* to the domain handlers, and the buffered and streamed execution modes.  *)
(*                                                                         *)
(* Confidences are floats in the source; here they are integers in         *)
(* hundredths (0.7 is 70).  Message texts are the source's strings where   *)
(* the source fixes them; text produced by the text-generation provider is *)
(* drawn from GenTexts.                                                    *)
(***************************************************************************)
EXTENDS Integers, Sequences, FiniteSets, TLC

(***************************************************************************)
(* Bounds of the model.                                                    *)
(***************************************************************************)
MaxTurns == 2          \* turns started in a run of Spec
MaxTurnsEvict == 6     \* turns started in a run of SpecEvict
MaxChunks == 2         \* text increments the provider streams in one reply
MaxStreams == 1        \* streamed turns in flight at the same time

(***************************************************************************)
(* Program constants.                                                      *)
(***************************************************************************)
HISTORY_LIMIT == 10            \* "Keep only last 10 messages"
CONFIDENCE_THRESHOLD == 70     \* confidence_threshold = 0.7, in hundredths
BEAUTIFY_MIN_LEN == 30         \* len(raw_message) < 30 is left as it is
FALLBACK_CONFIDENCE == 50      \* classify_intent's fallback confidence 0.5
FORCED_CONFIDENCE == 100       \* confidence = 1.0 when files are present
ERROR_CONFIDENCE == 0          \* confidence 0.0 reported on the error paths

Users == {"default", "alice"}
Transcripts == {"hi", "what about tomorrow"}
FileIds == {"f1"}

(***************************************************************************)
(* Intents.  DispatchIntents are the keys of the `handlers` dict of        *)
(* _route_to_handler; VISUAL_RENDER is a label the classifier prompt       *)
(* offers but the dict does not hold.                                      *)
(***************************************************************************)
TaskIntents == {"ADD_TASK", "COMPLETE_TASK", "UPDATE_TASK", "DELETE_TASK",
                "LIST_TASKS", "GET_TASK_REMINDERS"}
CalendarIntents == {"CREATE_CALENDAR_EVENT", "UPDATE_CALENDAR_EVENT",
                    "DELETE_CALENDAR_EVENT"}
EmailIntents == {"CHECK_EMAIL", "SEARCH_EMAIL", "READ_EMAIL", "ANALYZE_EMAIL"}
MemoryIntents == {"REMEMBER_THIS", "RECALL_MEMORY", "FORGET_THIS"}
DispatchIntents ==
    {"GET_WEATHER", "DAILY_SUMMARY", "SEARCH_RESTAURANTS", "LEARN", "GET_NEWS",
     "DOC_ANALYSIS"}
    \cup TaskIntents \cup CalendarIntents \cup EmailIntents \cup MemoryIntents
Intents == DispatchIntents \cup {"GENERAL_CHAT", "VISUAL_RENDER"}
\* the intents served by a handler of a domain (weather, tasks, ...)
DomainIntents == DispatchIntents \ {"DOC_ANALYSIS"}

(***************************************************************************)
(* Text.  The provider's answer to one generation call is either an error  *)
(* (ProviderError) or a text of GenTexts; the code strips it.              *)
(***************************************************************************)
ProviderError == "<provider error>"
ShortText == "Sure."
LongText == "Here is what I found for you today."
GenTexts == {" ", ShortText, LongText}
GenOutcomes == GenTexts \cup {ProviderError}

Strip(s) == IF s = " " THEN "" ELSE s

GENERATE_FALLBACK == "I'm having trouble thinking right now. Can you try again?"
STREAM_FALLBACK == "I'm having trouble thinking right now."
STREAM_ERROR == "I'm sorry, I encountered an error. How else can I help?"
STREAM_TRAILER == "I'm having trouble processing that right now."

\* The fixed messages of the handlers that are shorter than 30 characters,
\* and the provider texts that are.
ShortMessages ==
    {"", ShortText, "You don't have any tasks.", "Got it! I'll remember that.",
     "Here is the email from Bob."}

IsShort(m) == m \in ShortMessages

(***************************************************************************)
(* The outcome of a turn's collaborator calls, as the handlers see them.   *)
(*   dom   the handler's own extraction and domain calls: "ok"; "raises"   *)
(*         (a call raises inside the handler); "marker" (the collaborator  *)
(*         reports its failure as a value: an {error} dict, False, or the  *)
(*         empty list a tool returns after swallowing a store failure).    *)
(*   gen   the provider's answer to the call that writes the reply.        *)
(*   beaut the provider's answer to the beautify call.                     *)
(*   chat_id  the chat id the restaurant provider returns ("" for none).   *)
(***************************************************************************)
DomOutcomes == {"ok", "raises", "marker"}
NoChatId == ""
ChatIds == {NoChatId, "c1"}

Envs == [dom : DomOutcomes, gen : GenOutcomes, beaut : GenOutcomes,
         chat_id : ChatIds]

\* A handler's result {type, data, message}; of data the model keeps whether
\* it holds an "error" key.
Result(type, err, msg) == [type |-> type, data_error |-> err, message |-> msg]

(***************************************************************************)
(* GeminiService.generate_response: the provider's text stripped, or the   *)
(* fixed fallback when the call raises.                                    *)
(***************************************************************************)
generate_response(gen) ==
    IF gen = ProviderError THEN GENERATE_FALLBACK ELSE Strip(gen)

(***************************************************************************)
(* The domain handlers.  Each wraps its body in try/except Exception.      *)
(***************************************************************************)
handle_get_weather(env) ==
    CASE env.dom = "raises" ->
           Result("weather", TRUE,
                  "I'm having trouble getting the weather right now. Please try again.")
      [] env.dom = "marker" ->
           Result("weather", FALSE,
                  "I couldn't get the weather for Paris. Please try another location.")
      [] OTHER ->
           Result("weather", FALSE, "The weather in Paris is 20 C (68 F). Sunny.")

handle_add_task(env) ==
    \* TaskTool.add_task re-raises a store failure
    IF env.dom = "ok"
    THEN Result("task_creation", FALSE, "I've added 'buy milk' to your task list.")
    ELSE Result("task_creation", TRUE,
                "I had trouble adding that task. Please try again.")

handle_complete_task(env) ==
    CASE env.dom = "raises" ->
           Result("task_completion", TRUE, "I had trouble completing that task.")
      [] env.dom = "marker" ->
           \* list_tasks returned [] after a store failure
           Result("task_completion", FALSE, "You don't have any pending tasks.")
      [] OTHER ->
           Result("task_completion", FALSE, "I've marked 'buy milk' as complete.")

handle_update_task(env) ==
    CASE env.dom = "raises" ->
           Result("task_update", TRUE, "I had trouble updating that task.")
      [] env.dom = "marker" ->
           Result("task_update", FALSE, "You don't have any tasks.")
      [] OTHER ->
           Result("task_update", FALSE,
                  "I've updated 'buy milk' - changed priority to high.")

handle_delete_task(env) ==
    CASE env.dom = "raises" ->
           Result("task_deletion", TRUE, "I had trouble deleting that task.")
      [] env.dom = "marker" ->
           Result("task_deletion", FALSE, "You don't have any tasks to delete.")
      [] OTHER ->
           Result("task_deletion", FALSE, "I've deleted 'buy milk' from your tasks.")

handle_list_tasks(env) ==
    CASE env.dom = "raises" ->
           Result("task_list", TRUE, "I had trouble listing your tasks.")
      [] env.dom = "marker" ->
           Result("task_list", FALSE, "You don't have any pending tasks.")
      [] OTHER ->
           Result("task_list", FALSE, "You have 1 pending task: - buy milk")

handle_get_task_reminders(env) ==
    CASE env.dom = "raises" ->
           Result("task_reminders", TRUE, "I had trouble getting your reminders.")
      [] env.dom = "marker" ->
           Result("task_reminders", FALSE,
                  "You're all caught up! No tasks with upcoming due dates.")
      [] OTHER ->
           Result("task_reminders", FALSE,
                  "You have 1 pending task with no due dates.")

get_mock_daily_summary ==
    Result("summary", FALSE,
           "Today you completed 5 tasks and attended 2 meetings. Great progress!")

handle_daily_summary(env) ==
    CASE env.dom = "raises" -> get_mock_daily_summary
      [] env.dom = "marker" ->
           \* get_events_in_range returned [] after an API failure
           Result("summary", FALSE, "You have no events scheduled today.")
      [] OTHER ->
           Result("summary", FALSE, "You have 1 event today: standup at 9:00 AM.")

handle_create_calendar_event(env) ==
    CASE env.dom = "raises" ->
           Result("calendar_create", TRUE,
                  "I had trouble creating that calendar event. Please try again.")
      [] env.dom = "marker" ->
           Result("calendar_create", TRUE,
                  "Failed to create event: Calendar not authorized")
      [] OTHER ->
           Result("calendar_create", FALSE,
                  "I've created 'movie' in your calendar at 6:00 PM today.")

handle_update_calendar_event(env) ==
    CASE env.dom = "raises" ->
           Result("calendar_update", TRUE,
                  "I had trouble updating that calendar event. Please try again.")
      [] env.dom = "marker" ->
           Result("calendar_update", TRUE,
                  "Failed to update event: Calendar not authorized")
      [] OTHER ->
           Result("calendar_update", FALSE,
                  "I've updated 'movie' - changed time to 7:00 PM.")

handle_delete_calendar_event(env) ==
    CASE env.dom = "raises" ->
           Result("calendar_delete", TRUE,
                  "I had trouble deleting that event. Please try again.")
      [] env.dom = "marker" ->
           Result("calendar_delete", TRUE,
                  "You don't have any events today to delete.")
      [] OTHER ->
           Result("calendar_delete", FALSE,
                  "I've deleted 'movie' from your calendar.")

handle_learn(env) ==
    CASE env.dom = "raises" ->
           Result("educational", TRUE,
                  "I'm having trouble finding information on that right now.")
      [] env.dom = "marker" \/ env.gen = ProviderError ->
           \* answer_question returns {error, answer}
           Result("educational", TRUE,
                  "I'm having trouble finding information on that right now.")
      [] OTHER -> Result("educational", FALSE, Strip(env.gen))

handle_news(env) ==
    CASE env.dom = "raises" ->
           Result("news", TRUE, "I'm having trouble getting the news right now.")
      [] env.dom = "marker" ->
           \* the tool's error dict has no "data" key: data is {}
           Result("news", FALSE,
                  "I'm having trouble accessing the latest news right now.")
      [] OTHER ->
           Result("news", FALSE, "Here are the top news stories for top headlines.")

handle_check_email(env) ==
    CASE env.dom = "raises" ->
           Result("email", TRUE, "I'm having trouble checking your emails right now.")
      [] env.dom = "marker" ->
           Result("email", FALSE, "I couldn't find any emails matching your request.")
      [] OTHER ->
           Result("email", FALSE, "Here are your last 1 email: 'Invoice' from Bob")

handle_search_email(env) ==
    CASE env.dom = "raises" ->
           Result("email_search", TRUE,
                  "I'm having trouble searching your emails right now.")
      [] env.dom = "marker" ->
           Result("email_search", FALSE,
                  "I couldn't find any emails matching 'category:primary invoice'.")
      [] OTHER ->
           Result("email_search", FALSE,
                  "I found 1 email matching your search: 'Invoice' from Bob")

handle_read_email(env) ==
    CASE env.dom = "raises" ->
           Result("email_content", TRUE,
                  "I'm having trouble opening that email right now.")
      [] env.dom = "marker" ->
           Result("email_content", TRUE,
                  "I had trouble loading that email. Please try again.")
      [] OTHER -> Result("email_content", FALSE, "Here is the email from Bob.")

handle_analyze_email(env) ==
    CASE env.dom = "raises" \/ (env.dom = "ok" /\ env.gen = ProviderError) ->
           Result("email_analysis", TRUE,
                  "I'm having trouble analyzing your emails right now.")
      [] env.dom = "marker" ->
           Result("email_analysis", FALSE,
                  "You don't have any recent emails in your Primary inbox to analyze.")
      [] OTHER -> Result("email_analysis", FALSE, Strip(env.gen))

\* "marker": the provider is not configured.  Otherwise the handler calls
\* yelp_tool.search_restaurants(..., chat_id=chat_id), and search_restaurants
\* has no chat_id parameter: the call raises TypeError before the provider
\* is asked, whatever the provider would answer, and the except clause
\* answers.
handle_search_restaurants(env) ==
    IF env.dom = "marker"
    THEN Result("restaurants", TRUE,
                "Restaurant search isn't configured yet. Please add YELP_API_KEY to your environment.")
    ELSE Result("restaurants", TRUE,
                "I'm having trouble searching for restaurants right now. Please try again.")

REMEMBER_ACK == "Got it! I'll remember that."
RECALL_LIST == "Here's what I remember about you: 1. Likes blue"
RECALL_EMPTY ==
    "I don't have any memories stored for you yet. Tell me something to remember!"

\* "marker": the extraction of the fact returns an empty text
handle_remember_this(env) ==
    CASE env.dom = "raises" ->
           Result("memory", TRUE, "I'm having trouble with my memory right now.")
      [] env.dom = "marker" ->
           Result("memory", TRUE,
                  "I couldn't understand what you'd like me to remember. Could you rephrase that?")
      \* the store call runs in a background task after the handler returned
      [] OTHER -> Result("memory", FALSE, REMEMBER_ACK)

handle_recall_memory(env) ==
    CASE env.dom = "raises" ->
           Result("memory", TRUE, "I'm having trouble accessing my memory right now.")
      [] env.dom = "marker" -> Result("memory", FALSE, RECALL_EMPTY)
      [] OTHER -> Result("memory", FALSE, RECALL_LIST)

handle_forget_this(env) ==
    CASE env.dom = "raises" ->
           Result("memory", TRUE, "I'm having trouble with my memory right now.")
      [] env.dom = "marker" ->
           Result("memory", TRUE, "I had trouble clearing my memories.")
      [] OTHER ->
           Result("memory", FALSE,
                  "I've forgotten everything about you. We're starting fresh!")

\* Memory failures are swallowed and generate_response never raises, so the
\* handler's own except branch is not reached by a collaborator failure.
handle_general_chat(env) ==
    Result("conversation", FALSE, generate_response(env.gen))

handle_doc_analysis(env) == handle_general_chat(env)

(***************************************************************************)
(* GeminiService.classify_intent.  The provider's answer to the            *)
(* classification call is an error, text that is no JSON, JSON that is no  *)
(* object, or a JSON object (bare or in a markdown fence) that may lack    *)
(* either key and whose confidence may be no number.  The whole body runs  *)
(* in try/except Exception; the log line reads result['intent'] and        *)
(* result['confidence'], so a missing key raises inside the try.           *)
(***************************************************************************)
ConfidenceValues == {0, 50, 69, 70, 95}

ClassifierAnswers ==
    [kind : {"json", "fenced_json"}, has_intent : {TRUE}, has_confidence : {TRUE},
     intent : Intents, confidence : ConfidenceValues, numeric : {TRUE}]
    \cup [kind : {"json"}, has_intent : {TRUE}, has_confidence : {TRUE},
          intent : Intents, confidence : {0}, numeric : {FALSE}]
    \cup [kind : {"json"}, has_intent : BOOLEAN, has_confidence : BOOLEAN,
          intent : {"DELETE_TASK"}, confidence : {95}, numeric : {TRUE}]
    \cup [kind : {"error", "garbage", "not_object"}, has_intent : {FALSE},
          has_confidence : {FALSE}, intent : {"DELETE_TASK"}, confidence : {95},
          numeric : {TRUE}]

Parses(raw) ==
    raw.kind \in {"json", "fenced_json"} /\ raw.has_intent /\ raw.has_confidence

classify_intent_unguarded(raw) ==
    IF Parses(raw)
    THEN [raised |-> FALSE, intent |-> raw.intent, confidence |-> raw.confidence,
          numeric |-> raw.numeric]
    ELSE [raised |-> TRUE, intent |-> "GENERAL_CHAT",
          confidence |-> FALLBACK_CONFIDENCE, numeric |-> TRUE]

classify_intent(raw) ==
    IF Parses(raw)
    THEN [raised |-> FALSE, intent |-> raw.intent, confidence |-> raw.confidence,
          numeric |-> raw.numeric]
    ELSE [raised |-> FALSE, intent |-> "GENERAL_CHAT",
          confidence |-> FALLBACK_CONFIDENCE, numeric |-> TRUE]

(***************************************************************************)
(* OrchestratorService._beautify_response                                  *)
(***************************************************************************)
\* The rewrite call answers with an error or a text; the text may come in
\* double quotes, which the code strips after the whitespace.
QuotedText == "\"Here you go, all done.\""
QuotesOnly == "\"\""
BeautOutcomes == GenOutcomes \cup {QuotedText, QuotesOnly}

Unquote(s) ==
    CASE s = QuotedText -> "Here you go, all done."
      [] s = QuotesOnly -> ""
      [] OTHER -> s

beautify_response_unguarded(raw_message, beaut) ==
    IF IsShort(raw_message) THEN raw_message
    ELSE IF beaut = ProviderError THEN raw_message
    ELSE Unquote(Strip(beaut))

beautify_response(raw_message, beaut) ==
    IF IsShort(raw_message) THEN raw_message
    ELSE IF beaut = ProviderError THEN raw_message
    ELSE IF Unquote(Strip(beaut)) = "" THEN raw_message
    ELSE Unquote(Strip(beaut))

(***************************************************************************)
(* OrchestratorService._route_to_handler.  The three calendar lambdas pass *)
(* (t, user_id, history) to methods declared (self, transcript, user_id):  *)
(* calling them raises TypeError before the handler's try is entered.  A   *)
(* confidence that is no number raises TypeError in the comparison.        *)
(***************************************************************************)
NoResponse == Result("", FALSE, "")

dispatch(intent, env) ==
    CASE intent = "GET_WEATHER" -> handle_get_weather(env)
      [] intent = "ADD_TASK" -> handle_add_task(env)
      [] intent = "COMPLETE_TASK" -> handle_complete_task(env)
      [] intent = "UPDATE_TASK" -> handle_update_task(env)
      [] intent = "DELETE_TASK" -> handle_delete_task(env)
      [] intent = "LIST_TASKS" -> handle_list_tasks(env)
      [] intent = "GET_TASK_REMINDERS" -> handle_get_task_reminders(env)
      [] intent = "DAILY_SUMMARY" -> handle_daily_summary(env)
      [] intent = "CHECK_EMAIL" -> handle_check_email(env)
      [] intent = "SEARCH_EMAIL" -> handle_search_email(env)
      [] intent = "READ_EMAIL" -> handle_read_email(env)
      [] intent = "ANALYZE_EMAIL" -> handle_analyze_email(env)
      [] intent = "SEARCH_RESTAURANTS" -> handle_search_restaurants(env)
      [] intent = "REMEMBER_THIS" -> handle_remember_this(env)
      [] intent = "RECALL_MEMORY" -> handle_recall_memory(env)
      [] intent = "FORGET_THIS" -> handle_forget_this(env)
      [] intent = "LEARN" -> handle_learn(env)
      [] intent = "GET_NEWS" -> handle_news(env)
      [] intent = "DOC_ANALYSIS" -> handle_doc_analysis(env)
      [] OTHER -> handle_general_chat(env)

\* the lambdas of the dispatch table whose call raises
call_raises(intent) == intent \in CalendarIntents

effective_intent_without_threshold(intent, confidence) == intent

\* the intent after the confidence fallback
effective_intent(intent, confidence) ==
    IF confidence < CONFIDENCE_THRESHOLD THEN "GENERAL_CHAT" ELSE intent

\* the handler that serves an intent: its own, or the default
handler_of(intent) ==
    IF intent \in DispatchIntents THEN intent ELSE "GENERAL_CHAT"

route_to_handler(intent, confidence, numeric, env) ==
    IF ~numeric
    THEN [raised |-> TRUE, executed |-> "none", beautified |-> FALSE,
          raw_message |-> "", response |-> NoResponse]
    ELSE LET eff == effective_intent(intent, confidence) IN
         IF eff # "GENERAL_CHAT" /\ call_raises(eff)
         THEN [raised |-> TRUE, executed |-> "none", beautified |-> FALSE,
               raw_message |-> "", response |-> NoResponse]
         ELSE LET r == IF eff = "GENERAL_CHAT" THEN handle_general_chat(env)
                       ELSE dispatch(eff, env)
              IN [raised |-> FALSE,
                  executed |-> handler_of(eff),
                  beautified |-> eff # "GENERAL_CHAT",
                  raw_message |-> r.message,
                  response |->
                     IF eff # "GENERAL_CHAT"
                     THEN [r EXCEPT !.message = beautify_response(r.message, env.beaut)]
                     ELSE r]

(***************************************************************************)
(* The state.                                                              *)
(*   conversation_history, user_profile_cache, yelp_chat_ids               *)
(*       the three dicts of OrchestratorService, keyed by user id          *)
(*   profile_store     the user_profiles collection                        *)
(*   files             the file ids whose upload is in the uploads folder  *)
(*   extraction_tasks  per user, the profile-extraction tasks created and  *)
(*                     not yet run                                         *)
(*   streams           the process_transcript_stream generators, by turn   *)
(*   turn_count        turns started so far                                *)
(*   appended          per user, every message handed to _add_to_history,  *)
(*                     with the turn that handed it (history variable of   *)
(*                     the verification, read by no action)                *)
(*   ret               what process_transcript returned, when the latest   *)
(*                     turn was a buffered one                             *)
(***************************************************************************)
VARIABLES conversation_history, user_profile_cache, yelp_chat_ids,
          profile_store, files, extraction_tasks, streams, turn_count,
          appended, ret, memories, memory_tasks, task_db

vars == <<conversation_history, user_profile_cache, yelp_chat_ids,
          profile_store, files, extraction_tasks, streams, turn_count,
          appended, ret, memories, memory_tasks, task_db>>

NoName == "None"
Names == {NoName, "Sam", "Alex"}
Topics == {"cooking", "chess"}

\* a document of the profiles collection (name and interests of its
\* fields), and the place of a document that does not exist
Document(name, interests) ==
    [exists |-> TRUE, name |-> name, interests |-> interests]

Absent == [exists |-> FALSE, name |-> NoName, interests |-> {}]
default_profile == [name |-> NoName, interests |-> {}, stored |-> TRUE]
minimal_default_profile == [name |-> NoName, interests |-> {}, stored |-> FALSE]

NoCall ==
    [mode |-> "none", turn |-> 0, user |-> "", transcript |-> "",
     file_ids |-> {}, resolved |-> FALSE, classifier_called |-> FALSE,
     parsed |-> FALSE, classified |-> [intent |-> "", confidence |-> 0, numeric |-> TRUE],
     intent |-> "", confidence |-> 0, executed |-> "none", raised |-> FALSE,
     error_path |-> FALSE, dom |-> "ok", beautified |-> FALSE,
     rewritten |-> FALSE, profile |-> NoName, chat_id |-> NoChatId,
     response |-> NoResponse]

Init ==
    /\ conversation_history = [u \in {} |-> <<>>]
    /\ user_profile_cache = [u \in {} |-> default_profile]
    /\ yelp_chat_ids = [u \in {} |-> NoChatId]
    /\ profile_store = [u \in Users |-> Absent]
    /\ files = {}
    /\ extraction_tasks = [u \in Users |-> 0]
    /\ streams = [i \in {} |-> NoCall]
    /\ turn_count = 0
    /\ appended = [u \in Users |-> <<>>]
    /\ ret = NoCall
    /\ memories = [u \in Users |-> {}]
    /\ memory_tasks = [u \in Users |-> 0]
    /\ task_db = <<>>

(***************************************************************************)
(* OrchestratorService._get_conversation_history and _add_to_history       *)
(***************************************************************************)
get_conversation_history(h, user_id) ==
    IF user_id \in DOMAIN h THEN h[user_id] ELSE <<>>

add_to_history_keeps_oldest(h, user_id, role, content) ==
    LET grown == Append(get_conversation_history(h, user_id),
                        [role |-> role, parts |-> content])
        kept == IF Len(grown) > HISTORY_LIMIT
                THEN SubSeq(grown, 1, HISTORY_LIMIT)
                ELSE grown
    IN [x \in DOMAIN h \cup {user_id} |-> IF x = user_id THEN kept ELSE h[x]]

add_to_history_for_all(h, user_id, role, content) ==
    LET grown == Append(get_conversation_history(h, user_id),
                        [role |-> role, parts |-> content])
        kept == IF Len(grown) > HISTORY_LIMIT
                THEN SubSeq(grown, Len(grown) - HISTORY_LIMIT + 1, Len(grown))
                ELSE grown
    IN [x \in DOMAIN h \cup {user_id} |-> kept]

add_to_history(h, user_id, role, content) ==
    LET grown == Append(get_conversation_history(h, user_id),
                        [role |-> role, parts |-> content])
        kept == IF Len(grown) > HISTORY_LIMIT
                THEN SubSeq(grown, Len(grown) - HISTORY_LIMIT + 1, Len(grown))
                ELSE grown
    IN [x \in DOMAIN h \cup {user_id} |-> IF x = user_id THEN kept ELSE h[x]]

\* the record of the call in `appended`
logged(a, user_id, role, content, turn) ==
    [a EXCEPT ![user_id] = Append(@, [role |-> role, parts |-> content, turn |-> turn])]

(***************************************************************************)
(* app.api.files: upload ids are uuid4 strings, all of one length, so the  *)
(* startswith test of get_file_path matches the upload saved under the id. *)
(***************************************************************************)
get_file_path(file_id, stored) == file_id \in stored

delete_files_of_no_turn(file_ids, stored) == stored

delete_files(file_ids, stored) == stored \ file_ids

(***************************************************************************)
(* OrchestratorService._get_user_profile.  prof is what the profile store  *)
(* does when the cache misses: "ok"; "store_fails" (get_or_create_profile  *)
(* swallows the failure and returns the minimal default, which is cached); *)
(* "tool_raises" (get_profile_tool raises: nothing is cached).             *)
(***************************************************************************)
ProfOutcomes == {"ok", "store_fails", "tool_raises"}

cache_after_get(cache, store, user_id, prof) ==
    IF user_id \in DOMAIN cache \/ prof = "tool_raises" THEN cache
    ELSE [x \in DOMAIN cache \cup {user_id} |->
            IF x # user_id THEN cache[x]
            ELSE IF prof = "store_fails" THEN minimal_default_profile
            ELSE IF store[user_id] = Absent THEN default_profile
            ELSE [name |-> store[user_id].name,
                  interests |-> store[user_id].interests, stored |-> TRUE]]

\* the dict _get_user_profile returns (its name): the cached one, or the
\* literal of the except clause when nothing could be cached
get_user_profile(cache, store, user_id, prof) ==
    LET after == cache_after_get(cache, store, user_id, prof)
    IN IF user_id \in DOMAIN after THEN after[user_id].name ELSE NoName

store_after_get(cache, store, user_id, prof) ==
    IF user_id \notin DOMAIN cache /\ prof = "ok" /\ store[user_id] = Absent
    THEN [store EXCEPT ![user_id] = Document(NoName, {})]
    ELSE store

(***************************************************************************)
(* Steps 1-3 of process_transcript and of process_transcript_stream:       *)
(* resolve the file ids, then force DOC_ANALYSIS or call the classifier.   *)
(***************************************************************************)
file_paths(file_ids, stored) == {f \in file_ids : get_file_path(f, stored)}

classification_on_file_ids(file_ids, stored, raw) ==
    IF file_ids # {}
    THEN [called |-> FALSE, raised |-> FALSE, intent |-> "DOC_ANALYSIS",
          confidence |-> FORCED_CONFIDENCE, numeric |-> TRUE]
    ELSE [called |-> TRUE, raised |-> classify_intent(raw).raised,
          intent |-> classify_intent(raw).intent,
          confidence |-> classify_intent(raw).confidence,
          numeric |-> classify_intent(raw).numeric]

classification(file_ids, stored, raw) ==
    IF file_paths(file_ids, stored) # {}
    THEN [called |-> FALSE, raised |-> FALSE, intent |-> "DOC_ANALYSIS",
          confidence |-> FORCED_CONFIDENCE, numeric |-> TRUE]
    ELSE [called |-> TRUE, raised |-> classify_intent(raw).raised,
          intent |-> classify_intent(raw).intent,
          confidence |-> classify_intent(raw).confidence,
          numeric |-> classify_intent(raw).numeric]

\* whether the call of yelp_tool.search_restaurants returns a response: it
\* is made with a keyword the function does not have, so it never does
search_restaurants_returns(env) == FALSE

yelp_after(yelp, user_id, executed, env) ==
    IF /\ executed = "SEARCH_RESTAURANTS" /\ search_restaurants_returns(env)
       /\ env.chat_id # NoChatId
    THEN [x \in DOMAIN yelp \cup {user_id} |->
            IF x = user_id THEN env.chat_id ELSE yelp[x]]
    ELSE yelp

\* _handle_remember_this, once it has a fact, creates the task that saves it
memory_tasks_after(tasks, user_id, executed, env) ==
    IF executed = "REMEMBER_THIS" /\ env.dom = "ok"
    THEN [tasks EXCEPT ![user_id] = @ + 1]
    ELSE tasks

(***************************************************************************)
(* OrchestratorService.process_transcript, one call from entry to return.  *)
(* process_transcript_result is the dict it returns.                       *)
(***************************************************************************)
process_transcript_result_keeps_intent(turn, user_id, transcript, file_ids, stored, raw, env, profile) ==
    LET cls == classification(file_ids, stored, raw)
        r == route_to_handler(cls.intent, cls.confidence, cls.numeric, env)
        \* an exception in the try body: the except clause answers
        failed == cls.raised \/ r.raised
    IN [mode |-> "buffered", turn |-> turn, user |-> user_id,
        transcript |-> transcript, file_ids |-> file_ids,
        resolved |-> file_paths(file_ids, stored) # {},
        classifier_called |-> cls.called,
        parsed |-> cls.called /\ Parses(raw),
        classified |-> [intent |-> cls.intent, confidence |-> cls.confidence,
                        numeric |-> cls.numeric],
        intent |-> cls.intent,
        confidence |-> cls.confidence,
        executed |-> IF failed THEN "GENERAL_CHAT" ELSE r.executed,
        raised |-> FALSE,
        error_path |-> failed,
        dom |-> env.dom,
        beautified |-> ~failed /\ r.beautified,
        rewritten |-> ~failed /\ r.response.message # r.raw_message,
        profile |-> profile,
        \* for a restaurant turn, the chat id the provider has for the query
        chat_id |-> IF ~failed /\ r.executed = "SEARCH_RESTAURANTS"
                    THEN env.chat_id ELSE NoChatId,
        response |-> IF failed THEN handle_general_chat(env) ELSE r.response]

process_transcript_result(turn, user_id, transcript, file_ids, stored, raw, env, profile) ==
    LET cls == classification(file_ids, stored, raw)
        r == route_to_handler(cls.intent, cls.confidence, cls.numeric, env)
        \* an exception in the try body: the except clause answers
        failed == cls.raised \/ r.raised
    IN [mode |-> "buffered", turn |-> turn, user |-> user_id,
        transcript |-> transcript, file_ids |-> file_ids,
        resolved |-> file_paths(file_ids, stored) # {},
        classifier_called |-> cls.called,
        parsed |-> cls.called /\ Parses(raw),
        classified |-> [intent |-> cls.intent, confidence |-> cls.confidence,
                        numeric |-> cls.numeric],
        intent |-> IF failed THEN "GENERAL_CHAT" ELSE cls.intent,
        confidence |-> IF failed THEN ERROR_CONFIDENCE ELSE cls.confidence,
        executed |-> IF failed THEN "GENERAL_CHAT" ELSE r.executed,
        raised |-> FALSE,
        error_path |-> failed,
        dom |-> env.dom,
        beautified |-> ~failed /\ r.beautified,
        rewritten |-> ~failed /\ r.response.message # r.raw_message,
        profile |-> profile,
        \* for a restaurant turn, the chat id the provider has for the query
        chat_id |-> IF ~failed /\ r.executed = "SEARCH_RESTAURANTS"
                    THEN env.chat_id ELSE NoChatId,
        response |-> IF failed THEN handle_general_chat(env) ELSE r.response]

process_transcript(user_id, transcript, file_ids, raw, env, prof) ==
    LET turn == turn_count + 1
        res == process_transcript_result(turn, user_id, transcript, file_ids,
                                         files, raw, env,
                                         get_user_profile(user_profile_cache,
                                            profile_store, user_id, prof))
        h1 == add_to_history(conversation_history, user_id, "user", transcript)
        h2 == add_to_history(h1, user_id, "model", res.response.message)
        a1 == logged(appended, user_id, "user", transcript, turn)
        a2 == logged(a1, user_id, "model", res.response.message, turn)
    IN /\ turn_count' = turn
       /\ user_profile_cache' =
             cache_after_get(user_profile_cache, profile_store, user_id, prof)
       /\ profile_store' =
             store_after_get(user_profile_cache, profile_store, user_id, prof)
       /\ IF res.error_path
          THEN UNCHANGED <<conversation_history, appended, extraction_tasks,
                           yelp_chat_ids, memory_tasks>>
          ELSE /\ memory_tasks' =
                     memory_tasks_after(memory_tasks, user_id, res.executed, env)
               /\ conversation_history' = h2
               /\ appended' = a2
               /\ extraction_tasks' = [extraction_tasks EXCEPT ![user_id] = @ + 1]
               /\ yelp_chat_ids' = yelp_after(yelp_chat_ids, user_id, res.executed, env)
       /\ files' = delete_files(file_ids, files)
       /\ ret' = res
       /\ UNCHANGED <<streams, memories, task_db>>

(***************************************************************************)
(* GeminiService.generate_response_stream.  A script is what the provider  *)
(* does in one streamed reply: the chunk texts it sends, then whether the  *)
(* iteration raises.  Chunks with empty text are skipped; on the exception *)
(* the generator yields its fixed apology and ends.                        *)
(***************************************************************************)
ChunkTexts == {"", "Hel", "lo "}

RECURSIVE SeqsUpTo(_, _)
SeqsUpTo(S, n) ==
    IF n = 0 THEN {<<>>}
    ELSE LET shorter == SeqsUpTo(S, n - 1)
         IN shorter \cup {Append(q, x) : q \in shorter, x \in S}

Scripts == [chunks : SeqsUpTo(ChunkTexts, MaxChunks), fails : BOOLEAN]

generate_response_stream(script) ==
    SelectSeq(script.chunks, LAMBDA c : c # "")
       \o (IF script.fails THEN <<STREAM_FALLBACK>> ELSE <<>>)

RECURSIVE Concat(_)
Concat(texts) ==
    IF texts = <<>> THEN "" ELSE Head(texts) \o Concat(Tail(texts))

(***************************************************************************)
(* OrchestratorService.process_transcript_stream, an async generator.  A   *)
(* record of `streams` is one generator: pc is the yield it is suspended   *)
(* at ("chunk" in a streaming loop, "single" after the structured reply,   *)
(* "error" in the except clause, "trail" at the yield of the finally       *)
(* clause), "done" once exhausted, "closed" once the consumer closed it.   *)
(* delivered holds the tuples the consumer received.  history_handed is    *)
(* the value of `history` when step 2 binds it, history_read the value     *)
(* the handler or the text generator finds in it when it builds its prompt.*)
(***************************************************************************)
Tuple(text, intent, confidence) ==
    [text |-> text, intent |-> intent, confidence |-> confidence]

ErrorTuple == Tuple(STREAM_ERROR, "GENERAL_CHAT", ERROR_CONFIDENCE)
TrailerTuple == Tuple(STREAM_TRAILER, "GENERAL_CHAT", ERROR_CONFIDENCE)

InFlight == {i \in DOMAIN streams : streams[i].pc \notin {"done", "closed"}}

\* a new generator; the exhausted and closed ones are forgotten
with_stream(i, rec) ==
    [x \in InFlight \cup {i} |-> IF x = i THEN rec ELSE streams[x]]

\* the finally clause up to its yield: delete the files, create the
\* extraction task
stream_finally(user_id, transcript, file_ids) ==
    /\ files' = delete_files(file_ids, files)
    /\ extraction_tasks' =
          IF transcript # ""
          THEN [extraction_tasks EXCEPT ![user_id] = @ + 1]
          ELSE extraction_tasks

\* first step: from the call to the first yield
StreamStart(user_id, transcript, file_ids, raw, prof, E, S) ==
    LET turn == turn_count + 1
        cls == classification(file_ids, files, raw)
        intent == IF cls.numeric
                  THEN effective_intent(cls.intent, cls.confidence)
                  ELSE cls.intent
        handed == get_conversation_history(conversation_history, user_id)
        base == [mode |-> "stream", turn |-> turn, user |-> user_id,
                 transcript |-> transcript, file_ids |-> file_ids,
                 resolved |-> file_paths(file_ids, files) # {},
                 classifier_called |-> cls.called,
                 parsed |-> cls.called /\ Parses(raw),
                 classified |-> [intent |-> cls.intent,
                                 confidence |-> cls.confidence,
                                 numeric |-> cls.numeric],
                 intent |-> intent, confidence |-> cls.confidence,
                 branch |-> "error", executed |-> "none", raised |-> FALSE,
                 beautified |-> FALSE, rewritten |-> FALSE,
                 response |-> NoResponse, pc |-> "error", pending |-> <<>>,
                 full_response |-> "", delivered |-> <<ErrorTuple>>,
                 history_handed |-> handed, history_read |-> handed]
        \* the list object bound to `history`, as generate_response_stream
        \* finds it when its body first runs: the user's own list after the
        \* append of line 161/176 (before any re-slicing), or the fresh []
        \* of dict.get when the user had no list
        read == IF user_id \in DOMAIN conversation_history
                THEN Append(handed, [role |-> "user", parts |-> transcript])
                ELSE <<>>
        h1 == add_to_history(conversation_history, user_id, "user", transcript)
        a1 == logged(appended, user_id, "user", transcript, turn)
    IN /\ Cardinality(InFlight) < MaxStreams
       /\ turn_count' = turn
       /\ user_profile_cache' =
             cache_after_get(user_profile_cache, profile_store, user_id, prof)
       /\ profile_store' =
             store_after_get(user_profile_cache, profile_store, user_id, prof)
       /\ ret' = NoCall
       /\ UNCHANGED <<memories, task_db>>
       /\ IF cls.raised \/ ~cls.numeric
          THEN \* the classifier or the comparison with the threshold raises
               /\ streams' = with_stream(turn, base)
               /\ UNCHANGED <<conversation_history, appended, yelp_chat_ids,
                              files, extraction_tasks, memory_tasks>>
          ELSE IF intent \in {"GENERAL_CHAT", "DOC_ANALYSIS"}
          THEN \E script \in S :
                 LET ys == generate_response_stream(script) IN
                 /\ UNCHANGED <<yelp_chat_ids, memory_tasks>>
                 /\ IF ys = <<>>
                    THEN /\ conversation_history' =
                               add_to_history(h1, user_id, "model", "")
                         /\ appended' = logged(a1, user_id, "model", "", turn)
                         /\ stream_finally(user_id, transcript, file_ids)
                         /\ streams' = with_stream(turn,
                               [base EXCEPT !.branch = intent, !.pc = "trail",
                                            !.history_read = read,
                                            !.delivered = <<TrailerTuple>>])
                    ELSE /\ conversation_history' = h1
                         /\ appended' = a1
                         /\ UNCHANGED <<files, extraction_tasks>>
                         /\ streams' = with_stream(turn,
                               [base EXCEPT !.branch = intent, !.pc = "chunk",
                                  !.history_read = read,
                                  !.pending = Tail(ys),
                                  !.full_response = Head(ys),
                                  !.delivered =
                                     <<Tuple(Head(ys), intent, cls.confidence)>>])
          ELSE \E env \in E :
                 LET r == route_to_handler(intent, cls.confidence, TRUE, env)
                     msg == r.response.message
                 IN /\ UNCHANGED <<files, extraction_tasks>>
                    /\ IF r.raised
                       THEN /\ streams' = with_stream(turn, base)
                            /\ UNCHANGED <<conversation_history, appended,
                                           yelp_chat_ids, memory_tasks>>
                       ELSE /\ memory_tasks' =
                                  memory_tasks_after(memory_tasks, user_id,
                                                     r.executed, env)
                            /\ conversation_history' =
                                  add_to_history(h1, user_id, "model", msg)
                            /\ appended' = logged(a1, user_id, "model", msg, turn)
                            /\ yelp_chat_ids' =
                                  yelp_after(yelp_chat_ids, user_id, r.executed, env)
                            /\ streams' = with_stream(turn,
                                  [base EXCEPT !.branch = "structured",
                                     !.executed = r.executed,
                                     !.beautified = r.beautified,
                                     !.rewritten = (msg # r.raw_message),
                                     !.response = r.response, !.pc = "single",
                                     !.delivered =
                                        <<Tuple(msg, intent, cls.confidence)>>])

\* the consumer asks for the next tuple
StreamNext(i) ==
    LET st == streams[i] IN
    /\ i \in InFlight
    /\ UNCHANGED <<user_profile_cache, yelp_chat_ids, profile_store,
                   turn_count, ret, memories, memory_tasks, task_db>>
    /\ IF st.pc = "chunk" /\ st.pending # <<>>
       THEN /\ streams' = [streams EXCEPT ![i] =
                  [st EXCEPT !.pending = Tail(st.pending),
                     !.full_response = st.full_response \o Head(st.pending),
                     !.delivered = Append(st.delivered,
                        Tuple(Head(st.pending), st.intent, st.confidence))]]
            /\ UNCHANGED <<conversation_history, appended, files,
                           extraction_tasks>>
       ELSE IF st.pc = "chunk"
       THEN /\ conversation_history' =
                  add_to_history(conversation_history, st.user, "model",
                                 st.full_response)
            /\ appended' = logged(appended, st.user, "model",
                                  st.full_response, st.turn)
            /\ stream_finally(st.user, st.transcript, st.file_ids)
            /\ streams' = [streams EXCEPT ![i] =
                  [st EXCEPT !.pc = "trail",
                     !.delivered = Append(st.delivered, TrailerTuple)]]
       ELSE IF st.pc \in {"single", "error"}
       THEN /\ stream_finally(st.user, st.transcript, st.file_ids)
            /\ streams' = [streams EXCEPT ![i] =
                  [st EXCEPT !.pc = "trail",
                     !.delivered = Append(st.delivered, TrailerTuple)]]
            /\ UNCHANGED <<conversation_history, appended>>
       ELSE /\ streams' = [streams EXCEPT ![i] = [st EXCEPT !.pc = "done"]]
            /\ UNCHANGED <<conversation_history, appended, files,
                           extraction_tasks>>

\* the consumer closes the generator (or drops it and the event loop closes
\* it): GeneratorExit is raised at the yield, `except Exception` does not
\* catch it, the finally clause runs, and its yield makes the close raise
\* RuntimeError
StreamClose(i) ==
    LET st == streams[i] IN
    /\ i \in InFlight
    /\ UNCHANGED <<conversation_history, appended, user_profile_cache,
                   yelp_chat_ids, profile_store, turn_count, ret, memories,
                   memory_tasks, task_db>>
    /\ IF st.pc = "trail"
       THEN /\ streams' = [streams EXCEPT ![i] = [st EXCEPT !.pc = "closed"]]
            /\ UNCHANGED <<files, extraction_tasks>>
       ELSE /\ stream_finally(st.user, st.transcript, st.file_ids)
            /\ streams' = [streams EXCEPT ![i] =
                  [st EXCEPT !.pc = "closed", !.raised = TRUE]]

(***************************************************************************)
(* OrchestratorService._extract_and_update_profile, run as its own task.   *)
(* x is what the extraction finds and what the store does with it:         *)
(* "nothing" (no new fact, or a failure before the update), "updated",     *)
(* "store_fails" (the store fails at the first read of                     *)
(* update_profile_fields, which swallows the error; the cache is updated   *)
(* all the same, with the extracted fields as they are), "write_fails"     *)
(* (the store fails at the update, after the interests were merged into    *)
(* the extracted fields).  found is the normalized extraction: a name or   *)
(* NoField, and the interests it lists (none: the key is missing).         *)
(***************************************************************************)
ExtractOutcomes == {"nothing", "updated", "store_fails", "write_fails"}

NoField == "no key"
Extractions ==
    {f \in [name : {NoField, "Sam"}, interests : SUBSET Topics] :
        f.name # NoField \/ f.interests # {}}

NameOnly == [name |-> "Sam", interests |-> {}]

\* ProfileTool.update_profile_fields: the document after the update, and
\* the updates dict as the call leaves it (interests merged in place)
updated_document(doc, found) ==
    LET base == IF doc.exists THEN doc ELSE Document(NoName, {})
    IN [base EXCEPT !.name = IF found.name = NoField THEN @ ELSE found.name,
                    !.interests = @ \cup found.interests]

updates_after(doc, found, x) ==
    IF x = "store_fails" \/ found.interests = {} THEN found
    ELSE [found EXCEPT !.interests = doc.interests \cup @]

\* dict.update of the cached profile with the updates
cache_update(profile, updates) ==
    [profile EXCEPT !.name = IF updates.name = NoField THEN @ ELSE updates.name,
                    !.interests = IF updates.interests = {} THEN @
                                  ELSE updates.interests]

ExtractAndUpdateProfile(user_id, x, found) ==
    /\ extraction_tasks[user_id] > 0
    /\ extraction_tasks' = [extraction_tasks EXCEPT ![user_id] = @ - 1]
    /\ profile_store' =
          IF x = "updated"
          THEN [profile_store EXCEPT ![user_id] = updated_document(@, found)]
          ELSE profile_store
    /\ user_profile_cache' =
          IF x # "nothing" /\ user_id \in DOMAIN user_profile_cache
          THEN [user_profile_cache EXCEPT ![user_id] =
                  cache_update(@, updates_after(profile_store[user_id], found, x))]
          ELSE user_profile_cache
    /\ UNCHANGED <<conversation_history, yelp_chat_ids, files, streams,
                   turn_count, appended, ret, memories, memory_tasks, task_db>>

\* POST /upload saves a file under a fresh id (a uuid4: no stored file has
\* it and no turn in progress can have been given it)
Upload(file_id) ==
    /\ file_id \notin files
    /\ \A i \in InFlight : file_id \notin streams[i].file_ids
    /\ files' = files \cup {file_id}
    /\ UNCHANGED <<conversation_history, user_profile_cache, yelp_chat_ids,
                   profile_store, extraction_tasks, streams, turn_count,
                   appended, ret, memories, memory_tasks, task_db>>

(***************************************************************************)
(* save_memory_async, the task _handle_remember_this creates: it calls     *)
(* MemoryService.add_memory and logs the outcome, whatever it is.  o is    *)
(* what the memory store does with the fact.                               *)
(***************************************************************************)
Fact == "Likes blue"

save_memory_async(user_id, o) ==
    /\ memory_tasks[user_id] > 0
    /\ memory_tasks' = [memory_tasks EXCEPT ![user_id] = @ - 1]
    /\ memories' =
          IF o = "ok" THEN [memories EXCEPT ![user_id] = @ \cup {Fact}]
          ELSE memories
    /\ UNCHANGED <<conversation_history, user_profile_cache, yelp_chat_ids,
                   profile_store, files, extraction_tasks, streams, turn_count,
                   appended, ret, task_db>>

(***************************************************************************)
(* Spec: sessions of two users, buffered and streamed turns interleaved.   *)
(***************************************************************************)
SessionAnswers ==
    {raw \in ClassifierAnswers :
        /\ raw.kind \in {"json", "garbage"}
        /\ Parses(raw) => raw.numeric
        /\ raw.has_intent = raw.has_confidence
        /\ <<raw.intent, raw.confidence>> \in
              {<<"GENERAL_CHAT", 95>>, <<"LIST_TASKS", 95>>, <<"LIST_TASKS", 69>>,
               <<"CREATE_CALENDAR_EVENT", 95>>}}

SessionEnvs ==
    {env \in Envs : /\ env.dom \in {"ok", "raises"}
                    /\ env.gen = ShortText
                    /\ env.beaut = LongText
                    /\ env.chat_id = NoChatId}

\* the provider sends "Hel", "lo ", "Hel", ... and stops or fails anywhere
SessionScripts ==
    {sc \in Scripts :
        \A k \in DOMAIN sc.chunks :
            sc.chunks[k] = (IF k % 2 = 1 THEN "Hel" ELSE "lo ")}

Next ==
    \/ /\ turn_count < MaxTurns
       /\ \E u \in Users, t \in Transcripts, raw \in SessionAnswers,
             env \in SessionEnvs :
             process_transcript(u, t, {}, raw, env, "ok")
    \/ /\ turn_count < MaxTurns
       /\ \E u \in Users, t \in Transcripts, raw \in SessionAnswers :
             StreamStart(u, t, {}, raw, "ok", SessionEnvs, SessionScripts)
    \/ \E i \in DOMAIN streams : StreamNext(i)
    \/ \E i \in DOMAIN streams : StreamClose(i)
    \/ \E u \in Users, x \in {"nothing", "updated"} :
          ExtractAndUpdateProfile(u, x, NameOnly)

Spec == Init /\ [][Next]_vars

(***************************************************************************)
(* SpecEvict: one user's session, long enough for the history to evict.    *)
(***************************************************************************)
EvictAnswers ==
    {raw \in ClassifierAnswers :
        raw.kind = "json" /\ Parses(raw) /\ raw.numeric
        /\ raw.intent = "GENERAL_CHAT" /\ raw.confidence = 95}

EvictEnvs ==
    {env \in Envs : /\ env.dom = "ok" /\ env.gen = ShortText
                    /\ env.beaut = LongText
                    /\ env.chat_id = NoChatId}

EvictScripts == {sc \in SessionScripts : Len(sc.chunks) = 1 /\ ~sc.fails}

\* a turn starts once the extraction task of the turn before has run; a
\* streamed turn may start while another is in its streaming loop
NextEvict ==
    \/ /\ turn_count < MaxTurnsEvict
       /\ extraction_tasks["default"] = 0
       /\ \E raw \in EvictAnswers, env \in EvictEnvs :
             process_transcript("default", "hi", {}, raw, env, "ok")
    \/ /\ turn_count < MaxTurnsEvict
       /\ extraction_tasks["default"] = 0
       /\ \A i \in InFlight : streams[i].pc = "chunk"
       /\ \E raw \in EvictAnswers :
             StreamStart("default", "hi", {}, raw, "ok", EvictEnvs, EvictScripts)
    \/ \E i \in DOMAIN streams : StreamNext(i)
    \/ \E i \in DOMAIN streams : StreamClose(i)
    \/ ExtractAndUpdateProfile("default", "nothing", NameOnly)

SpecEvict == Init /\ [][NextEvict]_vars

(***************************************************************************)
(* SpecRoute: the first turn of a session, over every classifier answer,   *)
(* every outcome of the collaborators and every provider script.           *)
(***************************************************************************)
NextRoute ==
    \/ \E f \in FileIds : Upload(f)
    \/ /\ turn_count = 0
       /\ \E fs \in SUBSET FileIds, raw \in ClassifierAnswers, env \in Envs :
             process_transcript("default", "hi", fs, raw, env, "ok")
    \/ /\ turn_count = 0
       /\ \E fs \in SUBSET FileIds, raw \in ClassifierAnswers :
             StreamStart("default", "hi", fs, raw, "ok", Envs, Scripts)
    \/ \E i \in DOMAIN streams : StreamNext(i)
    \/ \E i \in DOMAIN streams : StreamClose(i)
    \/ \E x \in {"nothing", "updated"} :
          ExtractAndUpdateProfile("default", x, NameOnly)
    \/ \E o \in {"ok", "store_fails"} : save_memory_async("default", o)

SpecRoute == Init /\ [][NextRoute]_vars

(***************************************************************************)
(* app.api.profile: PUT /profile and DELETE /profile/field/{field_name},   *)
(* the explicit profile updates.  They work on the profile store through   *)
(* ProfileTool and never touch the orchestrator.  o is what the store      *)
(* does.  update_profile_fields swallows a store failure and returns the   *)
(* profile as it is, so the request is answered 200 either way;            *)
(* clear_profile_field returns False when the update fails, as it does     *)
(* for a document that does not exist.  ret holds the call and whether the *)
(* store took the update.                                                  *)
(***************************************************************************)
StoreOutcomes == {"ok", "store_fails"}

update_profile(user_id, name, o) ==
    /\ profile_store' =
          IF o = "ok"
          THEN [profile_store EXCEPT ![user_id] =
                  updated_document(@, [name |-> name, interests |-> {}])]
          ELSE profile_store
    /\ ret' = [mode |-> "update_profile", user |-> user_id, name |-> name,
               succeeded |-> (o = "ok")]
    /\ UNCHANGED <<conversation_history, user_profile_cache, yelp_chat_ids,
                   files, extraction_tasks, streams, turn_count, appended,
                   memories, memory_tasks, task_db>>

clear_profile_field(user_id, o) ==
    LET success == o = "ok" /\ profile_store[user_id] # Absent IN
    /\ profile_store' =
          IF success THEN [profile_store EXCEPT ![user_id].name = NoName]
          ELSE profile_store
    /\ ret' = [mode |-> "clear_profile_field", user |-> user_id,
               name |-> NoName, succeeded |-> success]
    /\ UNCHANGED <<conversation_history, user_profile_cache, yelp_chat_ids,
                   files, extraction_tasks, streams, turn_count, appended,
                   memories, memory_tasks, task_db>>

(***************************************************************************)
(* SpecProfile: buffered turns, the explicit profile updates and the       *)
(* background extraction with every outcome of its store update; the      *)
(* store answers every read.                                               *)
(***************************************************************************)
NextProfile ==
    \/ /\ turn_count < MaxTurns
       /\ \E u \in Users, raw \in EvictAnswers, env \in EvictEnvs :
             process_transcript(u, "hi", {}, raw, env, "ok")
    \/ \E u \in Users, name \in Names \ {NoName}, o \in StoreOutcomes :
          update_profile(u, name, o)
    \/ \E u \in Users, o \in StoreOutcomes : clear_profile_field(u, o)
    \/ \E u \in Users, x \in ExtractOutcomes, found \in Extractions :
          ExtractAndUpdateProfile(u, x, found)

SpecProfile == Init /\ [][NextProfile]_vars

(***************************************************************************)
(* SpecExtract: buffered turns and the background extraction with every    *)
(* outcome of its store update, and nothing else that writes the profile   *)
(* store; the store answers every read.                                    *)
(***************************************************************************)
NextExtract ==
    \/ /\ turn_count < MaxTurns
       /\ \E u \in Users, raw \in EvictAnswers, env \in EvictEnvs :
             process_transcript(u, "hi", {}, raw, env, "ok")
    \/ \E u \in Users, x \in ExtractOutcomes, found \in Extractions :
          ExtractAndUpdateProfile(u, x, found)

SpecExtract == Init /\ [][NextExtract]_vars

(***************************************************************************)
(* SpecLoad: buffered turns with every outcome of the profile load, the    *)
(* explicit updates that put a profile into the store, and the extraction  *)
(* tasks the turns leave behind.                                           *)
(***************************************************************************)
NextLoad ==
    \/ /\ turn_count < MaxTurns
       /\ \E u \in Users, raw \in EvictAnswers, env \in EvictEnvs,
             prof \in ProfOutcomes :
             process_transcript(u, "hi", {}, raw, env, prof)
    \/ \E u \in Users, name \in Names \ {NoName} : update_profile(u, name, "ok")
    \/ \E u \in Users : ExtractAndUpdateProfile(u, "nothing", NameOnly)

SpecLoad == Init /\ [][NextLoad]_vars

(***************************************************************************)
(* SpecMemory: turns the classifier labels REMEMBER_THIS or RECALL_MEMORY  *)
(* ("what do you know about me"), and the save tasks.  The event loop runs *)
(* a save task, which never suspends, before it serves the next request,   *)
(* so a turn starts with no save pending.  The memory store answers every  *)
(* read: RECALL_MEMORY finds the list when the fact is stored and nothing  *)
(* otherwise; the rewrite of the reply fails or comes back blank, so the   *)
(* reply is the handler's own text.                                        *)
(***************************************************************************)
MemoryAnswers ==
    {raw \in ClassifierAnswers :
        /\ raw.kind = "json" /\ Parses(raw) /\ raw.numeric
        /\ raw.intent \in {"REMEMBER_THIS", "RECALL_MEMORY"}
        /\ raw.confidence = 95}

MemoryEnvs(user_id, raw) ==
    {env \in Envs :
        /\ env.gen = ShortText /\ env.chat_id = NoChatId
        /\ env.beaut \in {ProviderError, " "}
        /\ IF raw.intent = "RECALL_MEMORY"
           THEN env.dom = (IF Fact \in memories[user_id] THEN "ok" ELSE "marker")
           ELSE env.dom \in {"ok", "marker"}}

NextMemory ==
    \/ /\ turn_count < MaxTurns
       /\ \A u \in Users : memory_tasks[u] = 0
       /\ \E u \in Users, raw \in MemoryAnswers :
             \E env \in MemoryEnvs(u, raw) :
                process_transcript(u, "hi", {}, raw, env, "ok")
    \/ \E u \in Users, o \in StoreOutcomes : save_memory_async(u, o)
    \/ \E u \in Users : ExtractAndUpdateProfile(u, "nothing", NameOnly)

SpecMemory == Init /\ [][NextMemory]_vars

(***************************************************************************)
(* OrchestratorService._find_best_task_match.  A text is the sequence of   *)
(* its characters.  ratio is difflib.SequenceMatcher(None, a, b).ratio():  *)
(* 2 * M / T, with T the two lengths together and M the characters in the  *)
(* matching blocks - the longest common block (of those the one earliest   *)
(* in a, then earliest in b), and recursively the blocks to its left and   *)
(* to its right; 1.0 when both texts are empty.  It is kept as the pair    *)
(* <<2 * M, T>>.  No character is junk for texts this short.               *)
(***************************************************************************)
lower(text) ==
    [k \in DOMAIN text |->
        CASE text[k] = "M" -> "m" [] text[k] = "T" -> "t" [] OTHER -> text[k]]

RECURSIVE run_length(_, _, _, _, _, _)
run_length(a, b, i, j, ahi, bhi) ==
    IF i > ahi \/ j > bhi \/ a[i] # b[j] THEN 0
    ELSE 1 + run_length(a, b, i + 1, j + 1, ahi, bhi)

find_longest_match(a, b, alo, ahi, blo, bhi) ==
    LET starts == (alo..ahi) \X (blo..bhi)
        size(st) == run_length(a, b, st[1], st[2], ahi, bhi)
        better(x, y) ==
            \/ size(x) > size(y)
            \/ size(x) = size(y) /\ x[1] < y[1]
            \/ size(x) = size(y) /\ x[1] = y[1] /\ x[2] <= y[2]
        best == CHOOSE x \in starts : \A y \in starts : better(x, y)
    IN [i |-> best[1], j |-> best[2], size |-> size(best)]

RECURSIVE matching_characters(_, _, _, _, _, _)
matching_characters(a, b, alo, ahi, blo, bhi) ==
    IF alo > ahi \/ blo > bhi THEN 0
    ELSE LET m == find_longest_match(a, b, alo, ahi, blo, bhi)
         IN IF m.size = 0 THEN 0
            ELSE m.size
                 + matching_characters(a, b, alo, m.i - 1, blo, m.j - 1)
                 + matching_characters(a, b, m.i + m.size, ahi,
                                       m.j + m.size, bhi)

ratio(a, b) ==
    IF Len(a) + Len(b) = 0 THEN <<1, 1>>
    ELSE <<2 * matching_characters(a, b, 1, Len(a), 1, Len(b)),
           Len(a) + Len(b)>>

\* comparisons of ratios, and of a ratio with the threshold in percent
Greater(r, q) == r[1] * q[2] > q[1] * r[2]
AbovePercent(r, pct) == 100 * r[1] > pct * r[2]
AtLeastPercent(r, pct) == 100 * r[1] >= pct * r[2]

MATCH_THRESHOLD == 60

score(query, task) == ratio(lower(query), lower(task))

\* the loop over the tasks: the index of best_match after the first n tasks
\* (0 is None).  best_score stays 0.0 until a task is accepted.
RECURSIVE best_match_last_of_ties(_, _, _)
RECURSIVE best_match(_, _, _)
best_match_last_of_ties(query, tasks, n) ==
    IF n = 0 THEN 0
    ELSE LET before == best_match_last_of_ties(query, tasks, n - 1)
             best_score == IF before = 0 THEN <<0, 1>>
                           ELSE score(query, tasks[before])
         IN IF /\ ~Greater(best_score, score(query, tasks[n]))
               /\ AbovePercent(score(query, tasks[n]), MATCH_THRESHOLD)
            THEN n ELSE before

best_match(query, tasks, n) ==
    IF n = 0 THEN 0
    ELSE LET before == best_match(query, tasks, n - 1)
             best_score == IF before = 0 THEN <<0, 1>>
                           ELSE score(query, tasks[before])
         IN IF /\ Greater(score(query, tasks[n]), best_score)
               /\ AbovePercent(score(query, tasks[n]), MATCH_THRESHOLD)
            THEN n ELSE before

find_best_task_match(query, tasks) == best_match(query, tasks, Len(tasks))

(***************************************************************************)
(* SpecMatch: _find_best_task_match applied to task lists of up to         *)
(* MaxTasks titles.  ret holds the call and the index it returned.         *)
(***************************************************************************)
MaxTasks == 2

Queries ==
    {<<"t","e","a">>, <<"T","e","a">>, <<"m","i","l","k">>,
     <<"m","i","l","k","s">>, <<"z","z","z">>, <<"t","e","a","p","o","t">>}

Titles ==
    {<<"t","e","a","p","o","t","s">>, <<"M","i","l","k">>,
     <<"m","i","l","k","y">>, <<"t","e","a">>}

FindBestTaskMatch(query, tasks) ==
    /\ ret' = [mode |-> "match", query |-> query, tasks |-> tasks,
               best_match |-> find_best_task_match(query, tasks),
               \* the list after the call: the loop only reads it
               tasks_after |-> tasks]
    /\ UNCHANGED <<conversation_history, user_profile_cache, yelp_chat_ids,
                   profile_store, files, extraction_tasks, streams,
                   turn_count, appended, memories, memory_tasks, task_db>>

\* one call, on any query and any list
NextMatch ==
    /\ ret.mode = "none"
    /\ \E query \in Queries, tasks \in SeqsUpTo(Titles, MaxTasks) :
          FindBestTaskMatch(query, tasks)

SpecMatch == Init /\ [][NextMatch]_vars

(***************************************************************************)
(* OrchestratorService._parse_date_range.  A datetime is the record of its *)
(* fields, day being the date as a day number with day 0 a Monday; the     *)
(* timezone, fixed by astimezone(), is the same in every value.  Of the    *)
(* transcript the function looks at which keywords the lowered text        *)
(* contains: "today", "tomorrow", and the weekday names, numbered 0        *)
(* (monday) to 6 (sunday), which it tries in that order.                   *)
(***************************************************************************)
weekday(dt) == dt.day % 7

plus_days(dt, n) == [dt EXCEPT !.day = @ + n]

start_of_day(dt) ==
    [dt EXCEPT !.hour = 0, !.minute = 0, !.second = 0, !.microsecond = 0]

end_of_day(dt) ==
    [dt EXCEPT !.hour = 23, !.minute = 59, !.second = 59,
               !.microsecond = 999999]

days_ahead_same_week(day_num, current_day) == (day_num - current_day) % 7

days_ahead(day_num, current_day) ==
    IF (day_num - current_day) % 7 = 0 THEN 7
    ELSE (day_num - current_day) % 7

\* the first name of day_names, in dict order, that the text contains
first_day_name(days) == CHOOSE d \in days : \A e \in days : d <= e

parse_date_range_tomorrow_first(transcript, now) ==
    IF transcript.tomorrow
    THEN <<start_of_day(plus_days(now, 1)), end_of_day(plus_days(now, 1))>>
    ELSE IF transcript.today
    THEN <<start_of_day(now), end_of_day(now)>>
    ELSE IF transcript.days # {}
    THEN LET target_date ==
                plus_days(now, days_ahead(first_day_name(transcript.days),
                                          weekday(now)))
         IN <<start_of_day(target_date), end_of_day(target_date)>>
    ELSE <<start_of_day(now), end_of_day(plus_days(now, 7))>>

parse_date_range(transcript, now) ==
    IF transcript.today
    THEN <<start_of_day(now), end_of_day(now)>>
    ELSE IF transcript.tomorrow
    THEN <<start_of_day(plus_days(now, 1)), end_of_day(plus_days(now, 1))>>
    ELSE IF transcript.days # {}
    THEN LET target_date ==
                plus_days(now, days_ahead(first_day_name(transcript.days),
                                          weekday(now)))
         IN <<start_of_day(target_date), end_of_day(target_date)>>
    ELSE <<start_of_day(now), end_of_day(plus_days(now, 7))>>

(***************************************************************************)
(* SpecDates: _parse_date_range on every day of a week, at three times of  *)
(* the day, for transcripts with any of the keywords and up to             *)
(* MaxDayNames weekday names.  ret holds the call, then what it returned.  *)
(***************************************************************************)
MaxDayNames == 2

DayNames == 0..6

TimesOfDay ==
    {[hour |-> 0, minute |-> 0, second |-> 0, microsecond |-> 0],
     [hour |-> 9, minute |-> 30, second |-> 15, microsecond |-> 250],
     [hour |-> 23, minute |-> 59, second |-> 59, microsecond |-> 999999]}

Nows ==
    {[day |-> d, hour |-> t.hour, minute |-> t.minute, second |-> t.second,
      microsecond |-> t.microsecond] : d \in DayNames, t \in TimesOfDay}

DateTranscripts ==
    [today : BOOLEAN, tomorrow : BOOLEAN,
     days : {ds \in SUBSET DayNames : Cardinality(ds) <= MaxDayNames}]

InitDates ==
    /\ conversation_history = [u \in {} |-> <<>>]
    /\ user_profile_cache = [u \in {} |-> default_profile]
    /\ yelp_chat_ids = [u \in {} |-> NoChatId]
    /\ profile_store = [u \in Users |-> Absent]
    /\ files = {}
    /\ extraction_tasks = [u \in Users |-> 0]
    /\ streams = [i \in {} |-> NoCall]
    /\ turn_count = 0
    /\ appended = [u \in Users |-> <<>>]
    /\ memories = [u \in Users |-> {}]
    /\ memory_tasks = [u \in Users |-> 0]
    /\ task_db = <<>>
    /\ \E transcript \in DateTranscripts, now \in Nows :
          ret = [mode |-> "parse_date_range", transcript |-> transcript,
                 now |-> now]

ParseDateRange ==
    /\ ret.mode = "parse_date_range"
    /\ ret' = [mode |-> "date_range", transcript |-> ret.transcript,
               now |-> ret.now,
               range |-> parse_date_range(ret.transcript, ret.now)]
    /\ UNCHANGED <<conversation_history, user_profile_cache, yelp_chat_ids,
                   profile_store, files, extraction_tasks, streams,
                   turn_count, appended, memories, memory_tasks, task_db>>

NextDates == ParseDateRange

SpecDates == InitDates /\ [][NextDates]_vars

(***************************************************************************)
(* app.services.task_tool.TaskTool over the document database.  task_db    *)
(* holds the task documents in the order of their creation, each with the  *)
(* path of its collection and its auto-generated id.  The tool of a user   *)
(* works on self.collection, fixed in __init__ from the user id; ret holds *)
(* the call and what it returned.                                          *)
(***************************************************************************)
collection_path_shared(user_id) == <<"tasks">>

collection_path(user_id) ==
    IF user_id = "default" THEN <<"tasks">>
    ELSE <<"users", user_id, "tasks">>

TaskIds == {"t1", "t2", "t3"}
TaskTitles == {"buy milk", "call mom"}

Reverse(q) == [k \in 1..Len(q) |-> q[Len(q) + 1 - k]]

\* list_tasks without a status filter: the documents of the collection,
\* newest first, each as a dict with its id
list_tasks(db, user_id) ==
    LET docs == SelectSeq(db, LAMBDA d : d.collection = collection_path(user_id))
    IN Reverse([k \in 1..Len(docs) |->
                  [id |-> docs[k].id, title |-> docs[k].title,
                   status |-> docs[k].status]])

exists_in(db, user_id, task_id) ==
    \E k \in 1..Len(db) :
        db[k].collection = collection_path(user_id) /\ db[k].id = task_id

TaskFrame ==
    UNCHANGED <<conversation_history, user_profile_cache, yelp_chat_ids,
                profile_store, files, extraction_tasks, streams, turn_count,
                appended, memories, memory_tasks>>

MaxTaskDocs == 2

add_task(user_id, title) ==
    /\ Len(task_db) < MaxTaskDocs
    /\ \E task_id \in TaskIds :
          /\ \A k \in 1..Len(task_db) : task_db[k].id # task_id
          /\ task_db' = Append(task_db,
                [collection |-> collection_path(user_id), id |-> task_id,
                 title |-> title, status |-> "pending"])
          /\ ret' = [mode |-> "add_task", user |-> user_id, id |-> task_id,
                     found |-> TRUE, tasks |-> <<>>]
    /\ TaskFrame

\* mark_complete
update_task(user_id, task_id) ==
    /\ task_db' =
          [k \in 1..Len(task_db) |->
              IF /\ task_db[k].collection = collection_path(user_id)
                 /\ task_db[k].id = task_id
              THEN [task_db[k] EXCEPT !.status = "completed"]
              ELSE task_db[k]]
    /\ ret' = [mode |-> "update_task", user |-> user_id, id |-> task_id,
               found |-> exists_in(task_db, user_id, task_id), tasks |-> <<>>]
    /\ TaskFrame

delete_task(user_id, task_id) ==
    /\ task_db' =
          SelectSeq(task_db,
             LAMBDA d : ~(d.collection = collection_path(user_id)
                          /\ d.id = task_id))
    /\ ret' = [mode |-> "delete_task", user |-> user_id, id |-> task_id,
               found |-> exists_in(task_db, user_id, task_id), tasks |-> <<>>]
    /\ TaskFrame

ListTasks(user_id) ==
    /\ ret' = [mode |-> "list_tasks", user |-> user_id, id |-> "",
               found |-> TRUE, tasks |-> list_tasks(task_db, user_id)]
    /\ UNCHANGED task_db
    /\ TaskFrame

(***************************************************************************)
(* SpecTasks: the task tools of the users, each called with any task id.   *)
(***************************************************************************)
NextTasks ==
    \/ \E u \in Users, title \in TaskTitles : add_task(u, title)
    \/ \E u \in Users, task_id \in TaskIds : update_task(u, task_id)
    \/ \E u \in Users, task_id \in TaskIds : delete_task(u, task_id)
    \/ \E u \in Users : ListTasks(u)

SpecTasks == Init /\ [][NextTasks]_vars

(***************************************************************************)
(* SpecBeautify: _beautify_response applied to the message of every        *)
(* handler under every outcome of its collaborators, with every answer of  *)
(* the rewrite call.  ret holds the call and what it returned.             *)
(***************************************************************************)
BeautifyCall(intent, env, beaut) ==
    LET raw_message == dispatch(intent, env).message IN
    /\ ret' = [mode |-> "beautify", raw_message |-> raw_message,
               beaut |-> beaut,
               message |-> beautify_response(raw_message, beaut)]
    /\ UNCHANGED <<conversation_history, user_profile_cache, yelp_chat_ids,
                   profile_store, files, extraction_tasks, streams,
                   turn_count, appended, memories, memory_tasks, task_db>>

\* of the collaborators only dom and gen shape a handler's message
BeautifyEnvs == {env \in Envs : env.beaut = ShortText /\ env.chat_id = NoChatId}

NextBeautify ==
    \E intent \in Intents, env \in BeautifyEnvs, beaut \in BeautOutcomes :
        BeautifyCall(intent, env, beaut)

SpecBeautify == Init /\ [][NextBeautify]_vars

(***************************************************************************)
(* Properties.                                                             *)
(***************************************************************************)
LastN(q, n) == IF Len(q) > n THEN SubSeq(q, Len(q) - n + 1, Len(q)) ELSE q

\* the messages of a log, as _add_to_history stores them
Messages(log) ==
    [k \in 1..Len(log) |-> [role |-> log[k].role, parts |-> log[k].parts]]

\* the messages a turn handed to _add_to_history for a user
OfTurn(user_id, turn) ==
    Messages(SelectSeq(appended[user_id], LAMBDA e : e.turn = turn))

Conversational(st) == st.branch \in {"GENERAL_CHAT", "DOC_ANALYSIS"}

\* C1: for every user the history holds at most 10 messages and is the last
\* min(n, 10) of the n messages appended for that user, in the order they
\* were appended, whatever mix of buffered and streamed turns appended them.
C1_HistoryIsLastTen ==
    \A u \in Users :
        LET h == get_conversation_history(conversation_history, u) IN
        /\ Len(h) <= HISTORY_LIMIT
        /\ h = LastN(Messages(appended[u]), HISTORY_LIMIT)

\* more than 10 messages were appended, by streamed turns and by a buffered
\* one, so the history has evicted
C1_Witness ==
    /\ Len(appended["default"]) > HISTORY_LIMIT
    /\ ret.mode = "buffered"
    /\ \E k \in 1..Len(appended["default"]) : appended["default"][k].turn # ret.turn
    /\ DOMAIN streams # {}

\* the turns whose outcome the state holds: the buffered call that returned
\* last, and the streamed turns
Calls == (IF ret.mode = "buffered" THEN {ret} ELSE {})
            \cup {streams[i] : i \in DOMAIN streams}

LowConfidence(c) ==
    /\ c.classifier_called
    /\ c.classified.numeric
    /\ c.classified.confidence < CONFIDENCE_THRESHOLD

\* C2: in both modes, when the classifier's confidence is below 0.7 the
\* general-chat handler is the one that executes (the general-chat streaming
\* branch in streamed mode), and no structured handler runs.
C2_LowConfidenceRunsGeneralChat ==
    \A c \in Calls :
        LowConfidence(c) =>
            IF c.mode = "buffered"
            THEN c.executed = "GENERAL_CHAT" /\ c.response.type = "conversation"
            ELSE c.branch = "GENERAL_CHAT" /\ c.executed = "none"

\* a buffered turn the classifier labelled DELETE_TASK with confidence 0.69
C2_Witness ==
    /\ ret.mode = "buffered"
    /\ LowConfidence(ret)
    /\ ret.parsed
    /\ ret.classified.intent = "DELETE_TASK"
    /\ ret.classified.confidence = 69
    /\ ret.executed = "GENERAL_CHAT"

\* C3: process_transcript always returns a result whose handler_response
\* holds a non-empty message, and never raises to its caller, whatever the
\* collaborators do.
C3_AlwaysNonEmptyMessage ==
    ret.mode = "buffered" => ~ret.raised /\ ret.response.message # ""

\* C4: when the consumer of a conversational stream stops after the first
\* chunk, the turn has appended nothing to the user's history: neither the
\* user message nor a partial assistant message.
C4_AbandonedStreamAppendsNothing ==
    \A i \in DOMAIN streams :
        LET st == streams[i] IN
        (/\ Conversational(st)
         /\ st.pc = "closed"
         /\ Len(st.delivered) = 1
         /\ st.delivered[1] # TrailerTuple)
           => OfTurn(st.user, st.turn) = <<>>

\* C5: _route_to_handler returns a handler result and never raises, for
\* every intent string and every confidence value, and an intent that has
\* no registered handler is served by the general-chat handler.
C5_RouteIsTotal ==
    (ret.mode = "buffered" /\ ret.classified.numeric) =>
        /\ ~ret.error_path
        /\ (ret.classified.intent \notin DispatchIntents
               => ret.executed = "GENERAL_CHAT")

\* C6: a domain handler whose external dependency fails (it raises, returns
\* an error marker, or returns the empty result of a swallowed store
\* failure) returns a non-empty message and a data object with an `error`
\* field.
C6_HandlerFailureCarriesError ==
    (/\ ret.mode = "buffered"
     /\ ~ret.error_path
     /\ ret.executed \in DomainIntents
     /\ ret.dom # "ok")
       => ret.response.message # "" /\ ret.response.data_error

\* C7 as stated: in both modes the classifier is called exactly when the
\* turn supplies no file id; a turn that supplies one is DOC_ANALYSIS with
\* confidence 1.0, whether or not the id resolves to a stored file.
C7_AttachmentSkipsClassifier ==
    \A c \in Calls :
        /\ c.classifier_called <=> (c.file_ids = {})
        /\ c.file_ids # {} =>
              c.classified.intent = "DOC_ANALYSIS"
              /\ c.classified.confidence = FORCED_CONFIDENCE

\* C7 amended: in both modes the classifier is called exactly when no
\* supplied file id resolves to a stored file; a turn with a resolved file
\* is DOC_ANALYSIS with confidence 1.0 and the reply reports that.
C7_ResolvedAttachmentSkipsClassifier ==
    \A c \in Calls :
        /\ c.classifier_called <=> ~c.resolved
        /\ c.resolved =>
              /\ c.classified.intent = "DOC_ANALYSIS"
              /\ c.classified.confidence = FORCED_CONFIDENCE
              /\ c.intent = "DOC_ANALYSIS"
              /\ c.confidence = FORCED_CONFIDENCE

\* a buffered turn whose file id resolved: the file is deleted afterwards
C7_Witness ==
    /\ ret.mode = "buffered"
    /\ ret.file_ids = {"f1"}
    /\ ret.resolved
    /\ ~ret.classifier_called
    /\ ret.executed = "DOC_ANALYSIS"
    /\ "f1" \notin files

\* C8: classify_intent never raises; on a provider error or an output that
\* does not parse or lacks a key it returns exactly {GENERAL_CHAT, 0.5}, so
\* the turn is served by the general-chat handler.
C8_FailedClassificationFallsBack ==
    \A c \in Calls :
        (c.classifier_called /\ ~c.parsed) =>
            /\ c.classified = [intent |-> "GENERAL_CHAT",
                               confidence |-> FALLBACK_CONFIDENCE,
                               numeric |-> TRUE]
            /\ IF c.mode = "buffered"
               THEN ~c.error_path /\ c.executed = "GENERAL_CHAT"
                    /\ c.intent = "GENERAL_CHAT"
               ELSE c.branch = "GENERAL_CHAT"

\* a streamed turn whose classification failed, streaming the chat reply
C8_Witness ==
    \E i \in DOMAIN streams :
        /\ streams[i].classifier_called
        /\ ~streams[i].parsed
        /\ streams[i].branch = "GENERAL_CHAT"
        /\ streams[i].pc = "chunk"

\* C9: after process_transcript returns, for every intent, the turn has
\* added to the user's history the user utterance and then the model
\* message it returned, and nothing else.
C9_BufferedTurnRecordsExchange ==
    ret.mode = "buffered" =>
        OfTurn(ret.user, ret.turn) =
            <<[role |-> "user", parts |-> ret.transcript],
              [role |-> "model", parts |-> ret.response.message]>>

\* the texts of the tuples a consumer received
RECURSIVE Texts(_)
Texts(tuples) ==
    IF tuples = <<>> THEN <<>> ELSE <<Head(tuples).text>> \o Texts(Tail(tuples))

\* C10: a conversational streamed turn appends no assistant message while
\* it streams; run to completion it has added exactly the user message and
\* one assistant message, whose text is the concatenation, in order, of
\* every chunk the consumer received.
C10_CompletedStreamRecordsWhatWasDelivered ==
    \A i \in DOMAIN streams :
        LET st == streams[i] IN
        Conversational(st) =>
            /\ st.pc = "chunk" =>
                  OfTurn(st.user, st.turn) =
                      <<[role |-> "user", parts |-> st.transcript]>>
            /\ st.pc = "done" =>
                  OfTurn(st.user, st.turn) =
                      <<[role |-> "user", parts |-> st.transcript],
                        [role |-> "model", parts |-> Concat(Texts(st.delivered))]>>

\* a streamed turn of a structured intent: classified with a confidence of
\* at least 0.7 as something other than GENERAL_CHAT and DOC_ANALYSIS
StructuredTurn(st) ==
    /\ st.classified.numeric
    /\ st.classified.confidence >= CONFIDENCE_THRESHOLD
    /\ st.classified.intent \notin {"GENERAL_CHAT", "DOC_ANALYSIS"}

\* C11: for a structured intent process_transcript_stream runs the handler
\* to completion, then yields exactly one (message, intent, confidence)
\* tuple, whose message is the handler's message, and then ends.
C11_StructuredStreamYieldsOneTuple ==
    \A i \in DOMAIN streams :
        LET st == streams[i] IN
        StructuredTurn(st) =>
            /\ st.pc \in {"single", "error", "trail", "done"} =>
                  st.executed = handler_of(st.classified.intent)
            /\ st.pc = "done" =>
                  st.delivered = <<Tuple(st.response.message, st.classified.intent,
                                         st.classified.confidence)>>

\* the intent a turn is handled as: the classified one after the confidence
\* fallback
TurnIntent(c) ==
    effective_intent(c.classified.intent, c.classified.confidence)

\* C12: the beautify rewrite is never applied to the output of a turn whose
\* intent is GENERAL_CHAT or DOC_ANALYSIS (turns downgraded to GENERAL_CHAT
\* by the confidence fallback included).
C12_ChatAndDocRepliesAreNotRewritten ==
    \A c \in Calls :
        (c.classified.numeric /\ TurnIntent(c) \in {"GENERAL_CHAT", "DOC_ANALYSIS"})
            => ~c.beautified /\ ~c.rewritten

\* C13: _beautify_response returns the handler's message unchanged when the
\* message is shorter than 30 characters, when the rewrite call fails and
\* when it produces empty text; a non-empty message is never replaced by an
\* empty one.
C13_BeautifyKeepsTheMessage ==
    ret.mode = "beautify" =>
        /\ (\/ IsShort(ret.raw_message)
            \/ ret.beaut = ProviderError
            \/ ret.beaut \in {" ", QuotesOnly})
              => ret.message = ret.raw_message
        /\ ret.raw_message # "" => ret.message # ""

\* a long handler message whose rewrite came back as a pair of quotes
C13_Witness ==
    /\ ret.mode = "beautify"
    /\ ~IsShort(ret.raw_message)
    /\ ret.beaut = QuotesOnly
    /\ ret.message = ret.raw_message

(***************************************************************************)
(* C14: the history handed to the streaming text generator at the start of *)
(* a turn is not changed by a later session mutation, in particular not by *)
(* that turn's own history appends: what the generator reads is what the   *)
(* turn was handed.                                                        *)
(***************************************************************************)
C14_HandedHistoryIsNotChanged ==
    \A i \in DOMAIN streams :
        streams[i].history_read = streams[i].history_handed

(***************************************************************************)
(* C15: after an explicit profile update (or clear-field) for a user has   *)
(* succeeded, the next turn of that user is handled with the profile the   *)
(* store holds, not with the value cached before the update.               *)
(***************************************************************************)
ExplicitUpdate(c) == c.mode \in {"update_profile", "clear_profile_field"}

C15_TurnAfterUpdateUsesUpdatedProfile ==
    [][(/\ ExplicitUpdate(ret) /\ ret.succeeded
        /\ ret'.mode = "buffered" /\ ret'.user = ret.user)
       => ret'.profile = profile_store[ret.user].name]_vars

(***************************************************************************)
(* C16: a failed profile-learning task leaves the turn's result, the       *)
(* history, the profile cache and the profile store unchanged.             *)
(***************************************************************************)
C16_FailedExtractionChangesNothing ==
    [][\A u \in Users :
          (\E found \in Extractions :
              ExtractAndUpdateProfile(u, "store_fails", found))
             => UNCHANGED <<ret, conversation_history, user_profile_cache,
                            profile_store>>]_vars

(***************************************************************************)
(* C17: once a REMEMBER_THIS turn of a user has replied with its           *)
(* acknowledgment, a RECALL_MEMORY turn of that user that follows          *)
(* immediately returns the list that contains the acknowledged fact.       *)
(***************************************************************************)
Acknowledged(c) ==
    /\ c.mode = "buffered" /\ c.executed = "REMEMBER_THIS"
    /\ c.response.message = REMEMBER_ACK

C17_RecallAfterRememberListsTheFact ==
    [][(/\ Acknowledged(ret)
        /\ ret'.mode = "buffered" /\ ret'.turn = ret.turn + 1
        /\ ret'.user = ret.user /\ ret'.executed = "RECALL_MEMORY")
       => ret'.response.message = RECALL_LIST]_vars

(***************************************************************************)
(* C18: the fuzzy match accepts a task exactly when its similarity ratio   *)
(* is at least 0.6: it returns a task (one of ratio at least 0.6, and of   *)
(* the highest ratio) whenever some task reaches 0.6, and none when every  *)
(* ratio is below 0.6; a query equal to a title ignoring case has ratio    *)
(* 1.0 and gets a task of that ratio.                                      *)
(***************************************************************************)
Accepted(query, task) == AtLeastPercent(score(query, task), MATCH_THRESHOLD)

C18_MatchAcceptsFromSixtyPercent ==
    ret.mode = "match" =>
        LET q == ret.query
            ts == ret.tasks
            b == ret.best_match
        IN /\ (b = 0) <=> (\A n \in DOMAIN ts : ~Accepted(q, ts[n]))
           /\ b # 0 => /\ Accepted(q, ts[b])
                       /\ \A n \in DOMAIN ts :
                             ~Greater(score(q, ts[n]), score(q, ts[b]))
           /\ \A n \in DOMAIN ts :
                 lower(ts[n]) = lower(q) =>
                    /\ score(q, ts[n]) = <<2 * Len(q), 2 * Len(q)>>
                    /\ b # 0 /\ lower(ts[b]) = lower(q)

(***************************************************************************)
(* C19 as stated: with neither "today" nor "tomorrow" in the utterance,    *)
(* for every weekday name d named in it the returned window is the one day *)
(* k days after today, with 1 <= k <= 7 and (c + k) mod 7 = d for the      *)
(* current weekday c (so k = 7 when d = c).                                *)
(***************************************************************************)
OneDay(dt) == <<start_of_day(dt), end_of_day(dt)>>

WindowOf(c, d, now, range) ==
    \E k \in 1..7 :
        /\ (c + k) % 7 = d
        /\ (d = c => k = 7)
        /\ range = OneDay(plus_days(now, k))

WeekdayCall(c) == c.mode = "date_range" /\ ~c.transcript.today /\ ~c.transcript.tomorrow

C19_EveryNamedWeekdayGetsItsWindow ==
    WeekdayCall(ret) =>
        \A d \in ret.transcript.days :
            WindowOf(weekday(ret.now), d, ret.now, ret.range)

(***************************************************************************)
(* C19 amended: with neither "today" nor "tomorrow" in the utterance, the  *)
(* returned window is that of the named weekday that comes first in the    *)
(* order Monday..Sunday: the one day k days after today with 1 <= k <= 7   *)
(* and (c + k) mod 7 = d, k = 7 when d = c; it is never today.             *)
(***************************************************************************)
C19_FirstNamedWeekdayGetsItsWindow ==
    (WeekdayCall(ret) /\ ret.transcript.days # {}) =>
        /\ WindowOf(weekday(ret.now), first_day_name(ret.transcript.days),
                    ret.now, ret.range)
        /\ ret.range[1].day > ret.now.day

C19_Witness ==
    /\ WeekdayCall(ret)
    /\ Cardinality(ret.transcript.days) = 2
    /\ weekday(ret.now) = first_day_name(ret.transcript.days)
    /\ ret.range[1].day = ret.now.day + 7

(***************************************************************************)
(* C20: "today" gives [today 00:00:00, today 23:59:59.999999]; "tomorrow"  *)
(* without "today" the same window one day later; no date keyword gives    *)
(* [today 00:00:00, today + 7 days 23:59:59.999999]; "today" wins over     *)
(* "tomorrow" and both over weekday names; every window starts before it   *)
(* ends.                                                                   *)
(***************************************************************************)
AsTuple(dt) == <<dt.day, dt.hour, dt.minute, dt.second, dt.microsecond>>

RECURSIVE LexLess(_, _)
LexLess(x, y) ==
    /\ x # <<>>
    /\ \/ Head(x) < Head(y)
       \/ Head(x) = Head(y) /\ LexLess(Tail(x), Tail(y))

Before(x, y) == LexLess(AsTuple(x), AsTuple(y))

Midnight(day) ==
    [day |-> day, hour |-> 0, minute |-> 0, second |-> 0, microsecond |-> 0]

LastMicrosecond(day) ==
    [day |-> day, hour |-> 23, minute |-> 59, second |-> 59,
     microsecond |-> 999999]

C20_KeywordWindows ==
    ret.mode = "date_range" =>
        LET t == ret.transcript
            today == ret.now.day
        IN /\ t.today =>
                 ret.range = <<Midnight(today), LastMicrosecond(today)>>
           /\ (t.tomorrow /\ ~t.today) =>
                 ret.range = <<Midnight(today + 1), LastMicrosecond(today + 1)>>
           /\ (~t.today /\ ~t.tomorrow /\ t.days = {}) =>
                 ret.range = <<Midnight(today), LastMicrosecond(today + 7)>>
           /\ Before(ret.range[1], ret.range[2])

C20_Witness ==
    /\ ret.mode = "date_range"
    /\ ret.transcript.today /\ ret.transcript.tomorrow
    /\ ret.transcript.days # {}
    /\ ret.now.hour = 23
    /\ ret.range = <<Midnight(ret.now.day), ret.now>>

(***************************************************************************)
(* C21: after a SEARCH_RESTAURANTS turn of a user in which the provider    *)
(* has a chat id for the query, the session stores that chat id for the    *)
(* user.                                                                   *)
(***************************************************************************)
RestaurantTurn(c) ==
    /\ c.mode = "buffered" /\ c.executed = "SEARCH_RESTAURANTS"
    /\ c.dom = "ok" /\ c.chat_id # NoChatId

C21_ChatIdIsKeptForTheUser ==
    RestaurantTurn(ret) =>
        /\ ret.user \in DOMAIN yelp_chat_ids
        /\ yelp_chat_ids[ret.user] = ret.chat_id

(***************************************************************************)
(* C22: 'default' maps to the global tasks collection and every other user *)
(* to a collection of its own; a task added, updated or deleted through    *)
(* the tool of user A never changes what list_tasks returns to another     *)
(* user B, and list_tasks returns to B no task B's own tool did not add.   *)
(***************************************************************************)
TaskCall(c) == c.mode \in {"add_task", "update_task", "delete_task", "list_tasks"}

C22_TasksAreIsolatedPerUser ==
    [][/\ collection_path("default") = <<"tasks">>
       /\ \A a \in Users, b \in Users :
             a # b => collection_path(a) # collection_path(b)
       /\ \A b \in Users :
             (TaskCall(ret') /\ ret'.user # b) =>
                 list_tasks(task_db', b) = list_tasks(task_db, b)
       /\ (ret'.mode = "list_tasks") =>
             Len(ret'.tasks) =
                Cardinality({k \in 1..Len(task_db) :
                    task_db[k].collection = collection_path(ret'.user)})]_vars

C22_Witness ==
    /\ ret.mode = "delete_task" /\ ret.found /\ ret.user = "alice"
    /\ Len(list_tasks(task_db, "default")) = 1
    /\ list_tasks(task_db, "alice") = <<>>

(***************************************************************************)
(* C23: the task _find_best_task_match returns has the highest score of    *)
(* the list, and is the first of the tasks with that score; for an empty   *)
(* list it returns no match; the list is the same after the call.          *)
(***************************************************************************)
C23_BestMatchIsFirstOfTheHighest ==
    ret.mode = "match" =>
        LET q == ret.query
            ts == ret.tasks
            b == ret.best_match
        IN /\ b # 0 =>
                 /\ b \in DOMAIN ts
                 /\ \A n \in DOMAIN ts : ~Greater(score(q, ts[n]), score(q, ts[b]))
                 /\ \A n \in 1..(b - 1) : Greater(score(q, ts[b]), score(q, ts[n]))
           /\ ts = <<>> => b = 0
           /\ ret.tasks_after = ts

C23_Witness ==
    /\ ret.mode = "match" /\ Len(ret.tasks) = 2
    /\ ret.best_match = 1
    /\ ~Greater(score(ret.query, ret.tasks[1]), score(ret.query, ret.tasks[2]))
    /\ ~Greater(score(ret.query, ret.tasks[2]), score(ret.query, ret.tasks[1]))

(***************************************************************************)
(* C24: when a background profile extraction of a cached user has updated  *)
(* the store successfully, the cached profile and the stored profile agree *)
(* on every field an extraction can set, whatever extractions came before. *)
(***************************************************************************)
Agree(user_id) ==
    /\ user_profile_cache[user_id].name = profile_store[user_id].name
    /\ user_profile_cache[user_id].interests = profile_store[user_id].interests

SuccessfulExtraction(user_id) ==
    /\ user_id \in DOMAIN user_profile_cache
    /\ \E found \in Extractions :
          ExtractAndUpdateProfile(user_id, "updated", found)

C24_CacheAndStoreAgreeAfterExtraction ==
    [][\A u \in Users : SuccessfulExtraction(u) => Agree(u)']_vars

(***************************************************************************)
(* C25: a buffered call reports the intent of the handler that ran         *)
(* (GENERAL_CHAT when the confidence fallback applied), and a buffered     *)
(* call and a streamed call of the same utterance with the same classifier *)
(* output report the same intent and confidence with their answer.         *)
(***************************************************************************)
SameTurnInput(c, st) ==
    /\ c.transcript = st.transcript
    /\ c.resolved = st.resolved
    /\ c.classifier_called = st.classifier_called
    /\ c.classified = st.classified

Answered(c) ==
    IF c.mode = "buffered" THEN ~c.error_path ELSE c.branch # "error"

C25_ModesReportTheExecutedIntent ==
    /\ (ret.mode = "buffered" /\ Answered(ret)) => ret.intent = ret.executed
    /\ \A i \in DOMAIN streams :
          (/\ ret.mode = "buffered" /\ Answered(ret) /\ Answered(streams[i])
           /\ SameTurnInput(ret, streams[i]))
          => /\ streams[i].delivered[1].intent = ret.intent
             /\ streams[i].delivered[1].confidence = ret.confidence

(***************************************************************************)
(* C26: however the turns of a user interleave, every model message of the *)
(* user's history comes right after the user message of the same turn, so  *)
(* no turn's pair is split by the messages of another turn.                *)
(***************************************************************************)
PairedAt(log, k) ==
    /\ k > 1
    /\ log[k - 1].role = "user"
    /\ log[k - 1].turn = log[k].turn

C26_NoPairIsSplit ==
    \A u \in Users : \A k \in DOMAIN appended[u] :
        appended[u][k].role = "model" => PairedAt(appended[u], k)

(***************************************************************************)
(* C27: when classification or routing raises inside process_transcript,   *)
(* the call returns the GENERAL_CHAT fallback with intent GENERAL_CHAT and *)
(* confidence 0.0, appends no message, schedules no profile-learning task  *)
(* and leaves the continuation tokens as they were.  Of the profile cache, *)
(* as stated: it is unchanged.                                             *)
(***************************************************************************)
FailedBufferedTurn ==
    /\ turn_count' = turn_count + 1
    /\ ret'.mode = "buffered"
    /\ ret'.error_path

FallbackResult(c) ==
    /\ c.intent = "GENERAL_CHAT"
    /\ c.confidence = ERROR_CONFIDENCE
    /\ c.executed = "GENERAL_CHAT"
    /\ c.response.type = "conversation"

C27_FailedTurnLeavesTheSession ==
    [][FailedBufferedTurn =>
          /\ FallbackResult(ret')
          /\ UNCHANGED <<conversation_history, extraction_tasks,
                         user_profile_cache, yelp_chat_ids>>]_vars

(***************************************************************************)
(* C27, amended: as above, but of the profile cache only the profiles      *)
(* cached before the call are unchanged; the caller's profile, loaded at   *)
(* step 1 before anything raises, may be newly cached.                     *)
(***************************************************************************)
CachedBeforeAreUnchanged(user_id) ==
    /\ DOMAIN user_profile_cache \subseteq DOMAIN user_profile_cache'
    /\ DOMAIN user_profile_cache' \subseteq DOMAIN user_profile_cache \cup {user_id}
    /\ \A u \in DOMAIN user_profile_cache :
          user_profile_cache'[u] = user_profile_cache[u]

C27_FailedTurnKeepsHistoryTasksAndToken ==
    [][FailedBufferedTurn =>
          /\ FallbackResult(ret')
          /\ CachedBeforeAreUnchanged(ret'.user)
          /\ UNCHANGED <<conversation_history, extraction_tasks,
                         yelp_chat_ids>>]_vars

\* a failed first turn: the user is cached and has no history
C27_Witness ==
    /\ ret.mode = "buffered" /\ ret.error_path
    /\ ret.user \in DOMAIN user_profile_cache
    /\ ret.user \notin DOMAIN conversation_history

(***************************************************************************)
(* C28: a profile is in the session cache only when it was loaded from the *)
(* profile store; a turn whose store call failed caches nothing, so that a *)
(* later turn reads the store again.                                       *)
(***************************************************************************)
C28_OnlyLoadedProfilesAreCached ==
    \A u \in DOMAIN user_profile_cache : user_profile_cache[u].stored

(***************************************************************************)
(* C29: when a turn is over (process_transcript has returned, normally or  *)
(* through its fallback; process_transcript_stream has run into its        *)
(* finally clause, exhausted or closed by its consumer) none of its file   *)
(* ids resolves to a stored file; and a file is deleted only by a turn it  *)
(* is attached to, when that turn ends, after the document handler of the  *)
(* turn was given the file.                                                *)
(***************************************************************************)
BufferedTurnEnds ==
    /\ turn_count' = turn_count + 1
    /\ ret'.mode = "buffered"

Over(st) == st.pc \in {"trail", "done", "closed"}

StreamEnds(i) ==
    /\ i \in DOMAIN streams'
    /\ Over(streams'[i])
    /\ i \in DOMAIN streams => ~Over(streams[i])

Unresolvable(file_ids, stored) == \A f \in file_ids : ~get_file_path(f, stored)

DeletedAfterRead(f) ==
    \/ /\ BufferedTurnEnds
       /\ f \in ret'.file_ids
       /\ ret'.resolved /\ ret'.executed = "DOC_ANALYSIS"
    \/ \E i \in DOMAIN streams' :
          /\ StreamEnds(i)
          /\ f \in streams'[i].file_ids
          /\ streams'[i].resolved /\ streams'[i].branch = "DOC_ANALYSIS"

Acts(user_id) ==
    \/ BufferedTurnEnds /\ ret'.user = user_id
    \/ \E i \in DOMAIN streams' :
          /\ streams'[i].user = user_id
          /\ i \in DOMAIN streams => streams'[i] # streams[i]
    \/ extraction_tasks'[user_id] < extraction_tasks[user_id]

SameEntry(before, after, user_id) ==
    /\ (user_id \in DOMAIN before) = (user_id \in DOMAIN after)
    /\ user_id \in DOMAIN before => after[user_id] = before[user_id]

SessionUnchanged(user_id) ==
    /\ SameEntry(conversation_history, conversation_history', user_id)
    /\ SameEntry(user_profile_cache, user_profile_cache', user_id)
    /\ SameEntry(yelp_chat_ids, yelp_chat_ids', user_id)

HadNoTurnBefore(user_id, turn) ==
    \A k \in DOMAIN appended[user_id] : appended[user_id][k].turn >= turn

ReadOfNewUserIsEmpty ==
    /\ \A u \in DOMAIN conversation_history : appended[u] # <<>>
    /\ \A i \in DOMAIN streams :
          HadNoTurnBefore(streams[i].user, streams[i].turn)
             => streams[i].history_handed = <<>>

C30_SessionsAreIsolated ==
    [][/\ \A b \in Users : ~Acts(b) => SessionUnchanged(b)
       /\ ReadOfNewUserIsEmpty']_vars

\* both users have a session, and the latest turn was a turn of one of them
\* while the other had a history
C30_Witness ==
    /\ ret.mode = "buffered" /\ ~ret.error_path
    /\ \E b \in Users \ {ret.user} :
          /\ b \in DOMAIN conversation_history
          /\ b \in DOMAIN user_profile_cache
          /\ conversation_history[b] # conversation_history[ret.user]


=============================================================================
